---------------------------- MODULE Spec2Model ----------------------------
(***************************************************************************)
(* regrad: a reverse-mode automatic differentiation engine over scalar     *)
(* nodes (src/src/value.rs) and an element-wise array wrapper              *)
(* (src/src/tensor.rs).                                                    *)
(*                                                                         *)
(* The Rc<RefCell<ValueInternal>> heap is an arena: nodes is a sequence    *)
(* of ValueInternal records and a Value (an Rc handle) is an index into    *)
(* it.  f64 is modelled by the integers (the engine only adds and          *)
(* multiplies), so signed zeros and NaN are outside the model.  The label  *)
(* field is None in every node the crate can build and is left out.        *)
(***************************************************************************)
EXTENDS Integers, Sequences, FiniteSets, TLC

VARIABLES
    nodes,      \* the arena: ValueInternal records, a Value is an index
    tensors,    \* the TensorInternal records built so far
    root,       \* the node of the last Value::backward call (0: none yet)
    grad0,      \* the gradients when that call started
    passes,     \* consecutive backward calls on root alone, counted from all-zero gradients
    nBackward,  \* backward calls since the gradients were last all zero
    order,      \* nodes whose propagate closure that call invoked, in order
    lastCall,   \* the last call that was not a builder
    lastArgs,   \* its arguments
    zeroed,     \* nodes zero_grad was called on since the last backward call
    nUpdate     \* number of Tensor::update calls so far

vars == <<nodes, tensors, root, grad0, passes, nBackward, order, lastCall,
          lastArgs, zeroed, nUpdate>>

---------------------------------------------------------------------------
(* Bounds of the model *)

\* Spec: nodes in the arena
MaxNodes == 4
\* SpecAccum: nodes in the arena, and backward calls on gradients that are not all zero
MaxNodesAccum == 3
MaxBackward == 2
\* SpecZero: nodes in the arena
MaxNodesZero == 3
\* SpecTensor and SpecUpdate: nodes, tensors, length of the data given to
\* Tensor::new, update calls
MaxNodesTensor == 4
MaxNodesUpdate == 3
MaxTensors == 2
MaxLen == 2
MaxUpdate == 1
\* SpecMain: the leaves of main are drawn from -MaxLeaf..MaxLeaf
MaxLeaf == 4
\* the largest magnitude of the data of a node the builder actions make
MaxData == 12

\* f64 inputs of Value::from.  -1 is the constant neg builds.
LeafVals == {-1, 0, 2, 3}
ZeroLeafVals == {0, 2}
TensorLeafVals == {2}
\* shapes given to the Tensor constructors and to reshape
Shapes == {<<1>>, <<2>>, <<1, 2>>}
UpdateShapes == {<<1>>, <<2>>}
\* f64 inputs of update
Factors == {-1, 1}

---------------------------------------------------------------------------
(* ValueInternal and the builders (value.rs) *)

IDs(ns) == 1..Len(ns)

\* ValueInternal::new: gradient starts at 0.0
ValueInternalNew(d, op, prev) ==
    [data |-> d, gradient |-> 0, operation |-> op, previous |-> prev]

\* impl From<f64> for Value: a leaf, no operation, no operands, no propagate
FromF64(ns, d) == Append(ns, ValueInternalNew(d, "None", <<>>))

\* fn add(u, v)
add(ns, u, v) ==
    Append(ns, ValueInternalNew(ns[u].data + ns[v].data, "Add", <<u, v>>))

\* fn mul(u, v)
mul(ns, u, v) ==
    Append(ns, ValueInternalNew(ns[u].data * ns[v].data, "Mul", <<u, v>>))

\* impl Neg: mul(self, &Value::from(-1.0)); the constant is built first
neg(ns, u) ==
    LET ns1 == FromF64(ns, -1) IN mul(ns1, u, Len(ns1))

\* impl Sub: add(self, &(-rhs))
sub(ns, u, v) ==
    LET ns1 == neg(ns, v) IN add(ns1, u, Len(ns1))

InRange(ns) == \A i \in IDs(ns) : ns[i].data >= -MaxData /\ ns[i].data <= MaxData

\* the propagate closure of add: both operands get the node's gradient added
AddPropagate(ns, v) ==
    LET g   == ns[v].gradient
        p0  == ns[v].previous[1]
        p1  == ns[v].previous[2]
        ns1 == [ns EXCEPT ![p0].gradient = @ + g]
    IN  [ns1 EXCEPT ![p1].gradient = @ + g]

\* a multiplication closure that overwrites instead of accumulating
MulPropagateOverwrite(ns, v) ==
    LET g   == ns[v].gradient
        p0  == ns[v].previous[1]
        p1  == ns[v].previous[2]
        ud  == ns[p0].data
        vd  == ns[p1].data
        ns1 == [ns EXCEPT ![p0].gradient = g * vd]
    IN  [ns1 EXCEPT ![p1].gradient = g * ud]

\* the propagate closure of mul: operand data are read first, then the two +=
MulPropagate(ns, v) ==
    LET g   == ns[v].gradient
        p0  == ns[v].previous[1]
        p1  == ns[v].previous[2]
        ud  == ns[p0].data
        vd  == ns[p1].data
        ns1 == [ns EXCEPT ![p0].gradient = @ + g * vd]
    IN  [ns1 EXCEPT ![p1].gradient = @ + g * ud]

\* if let Some(propagate) = internal.propagate { propagate(&internal) }
Propagate(ns, v) ==
    CASE ns[v].operation = "Add" -> AddPropagate(ns, v)
      [] ns[v].operation = "Mul" -> MulPropagate(ns, v)
      [] OTHER -> ns

HasPropagate(ns, v) == ns[v].operation # "None"

\* a zero_grad that also resets the operands
ZeroGradRecursive(ns, n) ==
    [i \in IDs(ns) |->
        IF i = n \/ (\E k \in 1..Len(ns[n].previous) : ns[n].previous[k] = i)
        THEN [ns[i] EXCEPT !.gradient = 0] ELSE ns[i]]

\* Value::zero_grad
ZeroGradValue(ns, n) == [ns EXCEPT ![n].gradient = 0]

\* Value::update: data += factor * gradient
UpdateValue(ns, n, factor) ==
    [ns EXCEPT ![n].data = @ + factor * ns[n].gradient]

---------------------------------------------------------------------------
(* Structural equality and hashing of Value *)

RECURSIVE ContentEq(_, _, _)
\* #[derive(PartialEq)] on Value goes through Rc and RefCell to
\* ValueInternal::eq: data, gradient, operation and previous, recursively.
ContentEq(ns, a, b) ==
    \/ a = b
    \/ /\ ns[a].data = ns[b].data
       /\ ns[a].gradient = ns[b].gradient
       /\ ns[a].operation = ns[b].operation
       /\ Len(ns[a].previous) = Len(ns[b].previous)
       /\ \A k \in 1..Len(ns[a].previous) :
             ContentEq(ns, ns[a].previous[k], ns[b].previous[k])

RECURSIVE Reach(_, _)
\* the nodes Hash for ValueInternal feeds to the hasher: the node and,
\* through previous.hash, every node below it
Reach(ns, r) ==
    {r} \cup UNION {Reach(ns, ns[r].previous[k]) : k \in 1..Len(ns[r].previous)}

\* HashSet::contains finds an entry only if it compares equal to the key.  An
\* entry whose hash input is what it was at insertion and which is equal to
\* the key has the key's hash, and is found.
MustContain(ns, vis, st, v) == \E e \in vis \ st : ContentEq(ns, e, v)

\* An equal entry whose hash input changed after insertion sits where its old
\* hash put it: the lookup may or may not meet it.
MayContain(ns, vis, v) == \E e \in vis : ContentEq(ns, e, v)

\* entries whose hash input differs between ns and ns2
Dirtied(ns, ns2, vis) ==
    {e \in vis : \E n \in Reach(ns, e) : ns2[n].gradient # ns[n].gradient}

---------------------------------------------------------------------------
(* Value::backward *)

\* a root gradient that is added to instead of set
RootGradientAdd(g) == g + 1

\* self.internal.borrow_mut().gradient = 1.0
RootGradient(g) == 1

RECURSIVE BackwardLoop(_, _, _, _, _)
\* The while loop, from a queue q, a visited set vis (st: its entries whose
\* hash input changed since insertion) and the closures invoked so far: the
\* set of results [nodes, order] the loop can end with.
BackwardLoop(ns, q, vis, st, ord) ==
    IF q = <<>> THEN {[nodes |-> ns, order |-> ord]}
    ELSE
      LET v     == Head(q)
          \* visited.contains(&value): continue
          skip  == BackwardLoop(ns, Tail(q), vis, st, ord)
          \* insert, propagate, push the operands
          ns2   == Propagate(ns, v)
          vis2  == vis \cup {v}
          st2   == (st \ {v}) \cup Dirtied(ns, ns2, vis2)
          ord2  == IF HasPropagate(ns, v) THEN Append(ord, v) ELSE ord
          visit == BackwardLoop(ns2, Tail(q) \o ns[v].previous, vis2, st2, ord2)
      IN  IF MustContain(ns, vis, st, v) THEN skip
          ELSE IF MayContain(ns, vis, v) THEN skip \cup visit
          ELSE visit

\* Value::backward on node r: what the call can leave behind
Backward(ns, r) ==
    BackwardLoop([ns EXCEPT ![r].gradient = RootGradient(@)], <<r>>, {}, {}, <<>>)

AllZero(ns) == \A i \in IDs(ns) : ns[i].gradient = 0

Gradients(ns) == [i \in IDs(ns) |-> ns[i].gradient]

---------------------------------------------------------------------------
(* Actions on values *)

Built(ns, maxNodes) ==
    /\ Len(ns) <= maxNodes
    /\ InRange(ns)
    /\ nodes' = ns
    /\ UNCHANGED <<tensors, root, grad0, passes, nBackward, order, lastCall,
                   lastArgs, zeroed, nUpdate>>

ValueFrom(vals, maxNodes) == \E d \in vals : Built(FromF64(nodes, d), maxNodes)

ValueAdd(maxNodes) == \E u, v \in IDs(nodes) : Built(add(nodes, u, v), maxNodes)

ValueMul(maxNodes) == \E u, v \in IDs(nodes) : Built(mul(nodes, u, v), maxNodes)

ValueNeg(maxNodes) == \E u \in IDs(nodes) : Built(neg(nodes, u), maxNodes)

ValueSub(maxNodes) == \E u, v \in IDs(nodes) : Built(sub(nodes, u, v), maxNodes)

BackwardCall(r) ==
    \E out \in Backward(nodes, r) :
        /\ nodes' = out.nodes
        /\ order' = out.order
        /\ root' = r
        /\ grad0' = Gradients(nodes)
        /\ passes' = IF AllZero(nodes) THEN 1
                     ELSE IF passes >= 1 /\ r = root /\ lastCall = "backward"
                          THEN passes + 1 ELSE 0
        /\ nBackward' = IF AllZero(nodes) THEN 1 ELSE nBackward + 1
        /\ lastCall' = "backward"
        /\ lastArgs' = <<r>>
        /\ zeroed' = {}
        /\ UNCHANGED <<tensors, nUpdate>>

\* backward on a graph whose gradients are all zero
FreshBackward == \E r \in IDs(nodes) : AllZero(nodes) /\ BackwardCall(r)

\* backward whatever the gradients are
AnyBackward ==
    \E r \in IDs(nodes) :
        /\ AllZero(nodes) \/ nBackward < MaxBackward
        /\ BackwardCall(r)

ZeroGrad ==
    \E n \in IDs(nodes) :
        /\ nodes' = ZeroGradValue(nodes, n)
        /\ zeroed' = zeroed \cup {n}
        /\ lastCall' = "zero_grad"
        /\ lastArgs' = <<n>>
        /\ passes' = 0
        /\ UNCHANGED <<tensors, root, grad0, nBackward, order, nUpdate>>

---------------------------------------------------------------------------
(* Tensor (tensor.rs) *)

TIDs(ts) == 1..Len(ts)

Reverse(q) == [i \in 1..Len(q) |-> q[Len(q) + 1 - i]]

RECURSIVE Product(_)
\* shape.iter().product(): 1 for the empty shape
Product(q) == IF q = <<>> THEN 1 ELSE Head(q) * Product(Tail(q))

RECURSIVE StridesFold(_, _)
\* .fold(vec![1], |acc, s| { acc.push(acc.last() * s); acc })
StridesFold(acc, q) ==
    IF q = <<>> THEN acc
    ELSE StridesFold(Append(acc, acc[Len(acc)] * Head(q)), Tail(q))

\* fn compute_strides: shape.iter().rev().skip(1).fold(...).iter().rev()
compute_strides(shape) ==
    LET rev     == Reverse(shape)
        skipped == IF rev = <<>> THEN <<>> ELSE Tail(rev)
    IN  Reverse(StridesFold(<<1>>, skipped))

\* TensorInternal::new
TensorInternalNew(data, shape, strides, size) ==
    [data |-> data, shape |-> shape, strides |-> strides, size |-> size]

\* Tensor::new(data, shape)
TensorNewOf(data, shape) ==
    TensorInternalNew(data, shape, compute_strides(shape), Product(shape))

\* vec![value; n]: n handles of one Value
Repeat(v, n) == [i \in 1..n |-> v]

Min(a, b) == IF a <= b THEN a ELSE b

\* u.data().iter().zip(v.data().iter()).map(op).collect(): the nodes appended
\* to the arena, one per pair
ZipNodes(ns, ud, vd, op) ==
    [i \in 1..Min(Len(ud), Len(vd)) |->
        ValueInternalNew(
            IF op = "Add" THEN ns[ud[i]].data + ns[vd[i]].data
                          ELSE ns[ud[i]].data * ns[vd[i]].data,
            op, <<ud[i], vd[i]>>)]

\* fn add / fn mul of tensor.rs on tensors u and v (records), after the shape
\* assertion: the arena and the tensor they return
Elementwise(ns, u, v, op) ==
    LET new == ZipNodes(ns, u.data, v.data, op)
    IN  [nodes  |-> ns \o new,
         tensor |-> TensorInternalNew([i \in 1..Len(new) |-> Len(ns) + i],
                                      u.shape, u.strides, u.size)]

\* impl Mul<&Value> for &Tensor
MulValue(ns, t, v) ==
    Elementwise(ns, t, TensorNewOf(Repeat(v, t.size), t.shape), "Mul")

\* impl Neg for &Tensor: self * &Value::from(-1.0)
TensorNegOf(ns, t) ==
    LET ns1 == FromF64(ns, -1) IN MulValue(ns1, t, Len(ns1))

RECURSIVE ForEach(_, _, _, _)
\* for v in self.data() { v.f(arg) }: the node calls one after the other
ForEach(ns, data, f, arg) ==
    IF data = <<>> THEN ns
    ELSE ForEach(IF f = "zero_grad" THEN ZeroGradValue(ns, Head(data))
                                    ELSE UpdateValue(ns, Head(data), arg),
                 Tail(data), f, arg)

RECURSIVE SeqsUpTo(_, _)
\* the sequences over S of length at most n
SeqsUpTo(S, n) ==
    IF n = 0 THEN {<<>>}
    ELSE LET shorter == SeqsUpTo(S, n - 1)
         IN  shorter \cup {Append(q, x) : q \in shorter, x \in S}

---------------------------------------------------------------------------
(* Actions on tensors *)

TensorBuilt(ns, t, maxNodes) ==
    /\ Len(tensors) < MaxTensors
    /\ Len(ns) <= maxNodes
    /\ InRange(ns)
    /\ nodes' = ns
    /\ tensors' = Append(tensors, t)
    /\ UNCHANGED <<root, grad0, passes, nBackward, order, lastCall, lastArgs,
                   zeroed, nUpdate>>

\* Tensor::new: data and shape as the caller gives them
TensorNew(shapes, maxNodes) ==
    \E data \in SeqsUpTo(IDs(nodes), MaxLen), shape \in shapes :
        TensorBuilt(nodes, TensorNewOf(data, shape), maxNodes)

\* Tensor::zeros: vec![Value::from(0.0); size]
TensorZeros(shapes, maxNodes) ==
    \E shape \in shapes :
        LET ns1 == FromF64(nodes, 0)
        IN  TensorBuilt(ns1, TensorNewOf(Repeat(Len(ns1), Product(shape)), shape),
                        maxNodes)

\* Tensor::ones: vec![Value::from(1.0); size]
TensorOnes(shapes, maxNodes) ==
    \E shape \in shapes :
        LET ns1 == FromF64(nodes, 1)
        IN  TensorBuilt(ns1, TensorNewOf(Repeat(Len(ns1), Product(shape)), shape),
                        maxNodes)

\* Tensor::gradient: fresh leaves holding the elements' gradients
TensorGradient(maxNodes) ==
    \E t \in TIDs(tensors) :
        LET T   == tensors[t]
            new == [i \in 1..Len(T.data) |->
                       ValueInternalNew(nodes[T.data[i]].gradient, "None", <<>>)]
        IN  TensorBuilt(nodes \o new,
                TensorInternalNew([i \in 1..Len(new) |-> Len(nodes) + i],
                                  T.shape, T.strides, T.size),
                maxNodes)

TensorAdd(maxNodes) ==
    \E t, u \in TIDs(tensors) :
        /\ tensors[t].shape = tensors[u].shape
        /\ LET r == Elementwise(nodes, tensors[t], tensors[u], "Add")
           IN  TensorBuilt(r.nodes, r.tensor, maxNodes)

TensorMul(maxNodes) ==
    \E t, u \in TIDs(tensors) :
        /\ tensors[t].shape = tensors[u].shape
        /\ LET r == Elementwise(nodes, tensors[t], tensors[u], "Mul")
           IN  TensorBuilt(r.nodes, r.tensor, maxNodes)

TensorMulValue(maxNodes) ==
    \E t \in TIDs(tensors), v \in IDs(nodes) :
        LET r == MulValue(nodes, tensors[t], v)
        IN  TensorBuilt(r.nodes, r.tensor, maxNodes)

TensorNeg(maxNodes) ==
    \E t \in TIDs(tensors) :
        LET r == TensorNegOf(nodes, tensors[t])
        IN  TensorBuilt(r.nodes, r.tensor, maxNodes)

\* impl Sub: self + &(-other)
TensorSub(maxNodes) ==
    \E t, u \in TIDs(tensors) :
        LET n == TensorNegOf(nodes, tensors[u])
        IN  /\ tensors[t].shape = n.tensor.shape
            /\ LET r == Elementwise(n.nodes, tensors[t], n.tensor, "Add")
               IN  TensorBuilt(r.nodes, r.tensor, maxNodes)

\* Tensor::reshape, the assertion holding: the shape field is assigned
TensorReshape ==
    \E t \in TIDs(tensors), shape \in Shapes :
        /\ tensors[t].size = Product(shape)
        /\ tensors' = [tensors EXCEPT ![t].shape = shape]
        /\ lastCall' = "reshape"
        /\ lastArgs' = <<t, shape>>
        /\ UNCHANGED <<nodes, root, grad0, passes, nBackward, order, zeroed,
                       nUpdate>>

\* Tensor::reshape, assert_eq! failing: the call panics before any write
TensorReshapePanic ==
    \E t \in TIDs(tensors), shape \in Shapes :
        /\ tensors[t].size # Product(shape)
        /\ lastCall' = "reshape_panic"
        /\ lastArgs' = <<t, shape>>
        /\ UNCHANGED <<nodes, tensors, root, grad0, passes, nBackward, order,
                       zeroed, nUpdate>>

\* Tensor::zero_grad
TensorZeroGrad ==
    \E t \in TIDs(tensors) :
        /\ nodes' = ForEach(nodes, tensors[t].data, "zero_grad", 0)
        /\ zeroed' = zeroed \cup {tensors[t].data[i] : i \in 1..Len(tensors[t].data)}
        /\ lastCall' = "tensor_zero_grad"
        /\ lastArgs' = <<t>>
        /\ passes' = 0
        /\ UNCHANGED <<tensors, root, grad0, nBackward, order, nUpdate>>

\* Tensor::update
TensorUpdate ==
    \E t \in TIDs(tensors), factor \in Factors :
        /\ nUpdate < MaxUpdate
        /\ nodes' = ForEach(nodes, tensors[t].data, "update", factor)
        /\ nUpdate' = nUpdate + 1
        /\ lastCall' = "tensor_update"
        /\ lastArgs' = <<t, factor>>
        /\ UNCHANGED <<tensors, root, grad0, passes, nBackward, order, zeroed>>

---------------------------------------------------------------------------
(* main.rs *)

\* lines 7-8: v1 and v2
MainInit ==
    /\ \E a, b \in (-MaxLeaf)..MaxLeaf : nodes = FromF64(FromF64(<<>>, a), b)
    /\ tensors = <<>>
    /\ root = 0
    /\ grad0 = <<>>
    /\ passes = 0
    /\ nBackward = 0
    /\ order = <<>>
    /\ lastCall = "none"
    /\ lastArgs = <<>>
    /\ zeroed = {}
    /\ nUpdate = 0

\* line 17, the inner product &v1 * &v1
MainMulInner ==
    /\ Len(nodes) = 2
    /\ nodes' = mul(nodes, 1, 1)
    /\ UNCHANGED <<tensors, root, grad0, passes, nBackward, order, lastCall,
                   lastArgs, zeroed, nUpdate>>

\* line 17, the outer product: v4
MainMulOuter ==
    /\ Len(nodes) = 3
    /\ nodes' = mul(nodes, 3, 2)
    /\ UNCHANGED <<tensors, root, grad0, passes, nBackward, order, lastCall,
                   lastArgs, zeroed, nUpdate>>

\* line 22: v4.backward()
MainBackward ==
    /\ Len(nodes) = 4
    /\ lastCall = "none"
    /\ BackwardCall(4)

---------------------------------------------------------------------------

Init ==
    /\ nodes = <<>>
    /\ tensors = <<>>
    /\ root = 0
    /\ grad0 = <<>>
    /\ passes = 0
    /\ nBackward = 0
    /\ order = <<>>
    /\ lastCall = "none"
    /\ lastArgs = <<>>
    /\ zeroed = {}
    /\ nUpdate = 0

\* graphs built from fresh leaves, differentiated once
Next ==
    \/ ValueFrom(LeafVals, MaxNodes)
    \/ ValueAdd(MaxNodes)
    \/ ValueMul(MaxNodes)
    \/ ValueNeg(MaxNodes)
    \/ ValueSub(MaxNodes)
    \/ FreshBackward

Spec == Init /\ [][Next]_vars

\* Repeated backward calls on gradients left by earlier ones.  sub is
\* add(u, mul(v, from(-1))): with -1 among the leaf values its graphs are
\* built by the other builders.
NextAccum ==
    \/ ValueFrom(LeafVals, MaxNodesAccum)
    \/ ValueAdd(MaxNodesAccum)
    \/ ValueMul(MaxNodesAccum)
    \/ ValueNeg(MaxNodesAccum)
    \/ AnyBackward

SpecAccum == Init /\ [][NextAccum]_vars

\* backward and zero_grad
NextZero ==
    \/ ValueFrom(ZeroLeafVals, MaxNodesZero)
    \/ ValueAdd(MaxNodesZero)
    \/ ValueMul(MaxNodesZero)
    \/ ValueNeg(MaxNodesZero)
    \/ FreshBackward
    \/ ZeroGrad

SpecZero == Init /\ [][NextZero]_vars

\* shapes and data of tensors: constructors, element-wise operators, reshape
NextTensor ==
    \/ ValueFrom(TensorLeafVals, MaxNodesTensor)
    \/ TensorNew(Shapes, MaxNodesTensor)
    \/ TensorZeros(Shapes, MaxNodesTensor)
    \/ TensorOnes(Shapes, MaxNodesTensor)
    \/ TensorGradient(MaxNodesTensor)
    \/ TensorAdd(MaxNodesTensor)
    \/ TensorMul(MaxNodesTensor)
    \/ TensorMulValue(MaxNodesTensor)
    \/ TensorNeg(MaxNodesTensor)
    \/ TensorSub(MaxNodesTensor)
    \/ TensorReshape
    \/ TensorReshapePanic

SpecTensor == Init /\ [][NextTensor]_vars

\* gradients of tensor elements: backward on a node, Tensor::zero_grad,
\* Tensor::update
NextUpdate ==
    \/ ValueFrom(TensorLeafVals, MaxNodesUpdate)
    \/ TensorNew(UpdateShapes, MaxNodesUpdate)
    \/ TensorZeros(UpdateShapes, MaxNodesUpdate)
    \/ TensorOnes(UpdateShapes, MaxNodesUpdate)
    \/ TensorAdd(MaxNodesUpdate)
    \/ TensorMul(MaxNodesUpdate)
    \/ TensorMulValue(MaxNodesUpdate)
    \/ TensorNeg(MaxNodesUpdate)
    \/ FreshBackward
    \/ TensorZeroGrad
    \/ TensorUpdate

SpecUpdate == Init /\ [][NextUpdate]_vars

\* the program of main.rs, for every pair of leaves
NextMain ==
    \/ MainMulInner
    \/ MainMulOuter
    \/ MainBackward

SpecMain == MainInit /\ [][NextMain]_vars

---------------------------------------------------------------------------
(* Properties *)

Operands(ns, c) == {ns[c].previous[k] : k \in 1..Len(ns[c].previous)}

Leaf(ns, n) == ns[n].operation = "None"

Count(q, x) == Cardinality({i \in 1..Len(q) : q[i] = x})

RECURSIVE PathGrad(_, _, _)
\* The derivative of node r with respect to node n: the sum over the operand
\* paths from r to n of the product of the local derivatives, 1 along an Add
\* edge and the other operand's data along a Mul edge.
PathGrad(ns, r, n) ==
    IF r = n THEN 1
    ELSE IF Leaf(ns, r) THEN 0
    ELSE LET p0 == ns[r].previous[1]
             p1 == ns[r].previous[2]
             d0 == IF ns[r].operation = "Add" THEN 1 ELSE ns[p1].data
             d1 == IF ns[r].operation = "Add" THEN 1 ELSE ns[p0].data
         IN  d0 * PathGrad(ns, p0, n) + d1 * PathGrad(ns, p1, n)

\* stride[i] = product(shape[i+1..]), the last stride 1
RowMajorStrides(shape) ==
    [i \in 1..Len(shape) |-> Product(SubSeq(shape, i + 1, Len(shape)))]

\* the step is a call, not a builder, and the call is c
Called(c) ==
    /\ lastCall' = c
    /\ Len(nodes') = Len(nodes)
    /\ Len(tensors') = Len(tensors)

\* C1: after backward on a graph whose gradients were all 0, the gradient of
\* every node reachable from the root is the sum over all operand paths from
\* the root of the product of the local derivatives.
C1_GradientIsPathSum ==
    (lastCall = "backward" /\ passes = 1) =>
        \A n \in Reach(nodes, root) :
            nodes[n].gradient = PathGrad(nodes, root, n)

\* C2: for leaves a and b with gradient 0, c = (a*a)*b has data a*a*b, and
\* after c.backward() the gradient of a is 2*a*b, of b is a*a, of the node
\* a*a is b, and of c is 1.
C2_MainGradients ==
    LET a == nodes[1].data
        b == nodes[2].data
    IN  /\ Len(nodes) = 4 => nodes[4].data = a * a * b
        /\ lastCall = "backward" =>
              /\ nodes[1].gradient = 2 * a * b
              /\ nodes[2].gradient = a * a
              /\ nodes[3].gradient = b
              /\ nodes[4].gradient = 1

\* main has run backward on (a*a)*b for distinct non-zero a and b
C2_Witness ==
    /\ lastCall = "backward"
    /\ root = 4
    /\ nodes[1].data = 2
    /\ nodes[2].data = 3
    /\ nodes[1].gradient = 12

\* C3: a second backward on the same root with no zero_grad between leaves
\* every leaf below the root with its gradient after the first call plus the
\* gradient of one fresh pass.  (The root itself is set to 1 by each call.)
C3_SecondPassAddsOnePass ==
    (lastCall = "backward" /\ passes = 2) =>
        \A n \in Reach(nodes, root) \ {root} :
            Leaf(nodes, n) =>
                nodes[n].gradient = grad0[n] + PathGrad(nodes, root, n)

\* C4: when backward returns the gradient of its root is 1, whatever the
\* gradients were before the call.
C4_RootGradientOne ==
    lastCall = "backward" => nodes[root].gradient = 1

\* backward has returned on an internal root that held a gradient other than
\* 0 and 1 from an earlier call
C4_Witness ==
    /\ lastCall = "backward"
    /\ HasPropagate(nodes, root)
    /\ grad0[root] > 1
    /\ nodes[root].gradient = 1

\* C5: Tensor::update(factor) leaves every element with its data before the
\* call plus factor times its gradient before the call, and every gradient
\* unchanged.
C5_UpdateEveryElement ==
    [][\A t \in TIDs(tensors), f \in Factors :
          (Called("tensor_update") /\ lastArgs' = <<t, f>>) =>
              /\ \A i \in 1..Len(tensors[t].data) :
                    LET e == tensors[t].data[i]
                    IN  nodes'[e].data = nodes[e].data + f * nodes[e].gradient
              /\ \A n \in IDs(nodes) : nodes'[n].gradient = nodes[n].gradient
      ]_vars

\* C6: in every tensor the number of elements is size and size is the
\* product of the shape.
C6_SizeInvariant ==
    \A t \in TIDs(tensors) :
        /\ Len(tensors[t].data) = tensors[t].size
        /\ tensors[t].size = Product(tensors[t].shape)

\* C7: reshape fails and changes nothing when the product of the new shape
\* is not size; when it succeeds the tensor has the new shape, the same
\* elements and the row-major strides of the new shape; so the strides of
\* every tensor are the row-major strides of its shape.
C7_ReshapeKeepsRowMajor ==
    [][/\ \A t \in TIDs(tensors), shape \in Shapes :
             /\ (lastArgs' = <<t, shape>> /\ Called("reshape_panic")) =>
                    /\ tensors[t].size # Product(shape)
                    /\ tensors' = tensors
                    /\ nodes' = nodes
             /\ (lastArgs' = <<t, shape>> /\ Called("reshape")) =>
                    /\ tensors[t].size = Product(shape)
                    /\ tensors'[t].shape = shape
                    /\ tensors'[t].data = tensors[t].data
                    /\ tensors'[t].strides = RowMajorStrides(shape)
       /\ \A t \in TIDs(tensors') :
             tensors'[t].strides = RowMajorStrides(tensors'[t].shape)
      ]_vars

\* C8: zero_grad on a node sets that node's gradient to 0 and changes no
\* other data or gradient; and when every node of the graph under a node r
\* has had zero_grad called on it since the last backward, all their
\* gradients are 0.
C8_ZeroGradFrame ==
    [][Called("zero_grad") =>
          /\ nodes' = [nodes EXCEPT ![lastArgs'[1]].gradient = 0]
          /\ \A r \in IDs(nodes') :
                Reach(nodes', r) \subseteq zeroed' =>
                    \A n \in Reach(nodes', r) : nodes'[n].gradient = 0
      ]_vars

\* zero_grad has been called on the root of the last backward and on nothing
\* else: its operands still hold the gradients backward gave them
C8_Witness ==
    /\ lastCall = "zero_grad"
    /\ lastArgs = <<root>>
    /\ zeroed = {root}
    /\ HasPropagate(nodes, root)
    /\ nodes[root].gradient = 0
    /\ \E n \in Operands(nodes, root) : nodes[n].gradient # 0

\* C9: in one backward call a node's propagate closure runs only after the
\* closure of every node reachable from the root that has it as an operand.
C9_PropagateAfterConsumers ==
    lastCall = "backward" =>
        \A i \in 1..Len(order) :
            \A c \in Reach(nodes, root) :
                order[i] \in Operands(nodes, c) =>
                    \E j \in 1..(i - 1) : order[j] = c

\* C10: in one backward call the propagate closure of every reachable node
\* that has one is invoked exactly once.
C10_PropagateExactlyOnce ==
    lastCall = "backward" =>
        \A n \in Reach(nodes, root) :
            HasPropagate(nodes, n) => Count(order, n) = 1

===========================================================================
